---- MODULE Spec2Model ----
(***************************************************************************)
(* GeminiLiveService (services/geminiLiveService.ts): the real-time audio  *)
(* capture pipeline with VAD, pre-roll buffering and hangover, the         *)
(* playback scheduler with interruption, and the connect() life cycle.     *)
(*                                                                         *)
(* Units.  RMS energies and the silence threshold are in thousandths       *)
(* (0.005 is 5, 0.02 is 20).  Times of the output clock are milliseconds   *)
(* (the 0.05 s lead is 50).  A captured frame is named by its capture      *)
(* index (1, 2, ...): the first onaudioprocess call delivers frame 1.      *)
(***************************************************************************)
EXTENDS Integers, Sequences, FiniteSets, TLC

VARIABLES
  \* ---- hardware and network handles held by the service
  inputAudioContext,   \* "null" | "open" | "closed" (close() was called on
  outputAudioContext,  \*   the context the field still refers to)
  outputGainNode,      \* "null" | "node"
  stream,              \* "null" | "live"
  inputProcessor,      \* "null" | "attached" (with its onaudioprocess callback)
  volumeInterval,      \* "null" | "set"
  sessionPromise,      \* "null" | "pending" | "resolved" | "rejected"
  transport,           \* the remote session: "none" | "connecting" | "open"
                       \*   | "failed" | "closed"
  outputGain,          \* outputGainNode.gain: the volume last asked for
                       \*   and the value set, in hundredths
  \* ---- capture pipeline
  isMuted,
  silenceThreshold,
  maxPreRollFrames,
  preRollBuffer,       \* sequence of frame indices, oldest first
  isSpeechActive,
  silenceFrameCount,
  \* ---- playback scheduler
  nextStartTime,
  sources,             \* set of handle ids
  \* ---- transcript turn
  currentTurnId,       \* 0 is null
  currentRole,
  currentTranscript,   \* sequence of text tokens
  \* ---- environment
  currentTime,         \* outputAudioContext.currentTime
  connectPc,           \* where the connect() call stands
  fault,               \* what went wrong around connect(), "none" if nothing
  decoding,            \* handleMessage calls suspended in decodeAudioData
  disconnectPc,        \* per disconnect() call, in call order: where it
                       \*   stands (pc), and where connect() stood (at)
                       \*   and what the transport was (session) at the call
  downsample,          \* the latest downsampleBuffer call and its result
  sampleRate,          \* inputAudioContext.sampleRate, the device's rate
  useLocalVoice,
  orphans,             \* frame callbacks still attached to the capture
                       \*   graph that inputProcessor no longer refers to
  interviewPc,         \* where the startInterviewMode() call stands
  \* ---- what the collaborators observe
  sent,                \* frames the transport has received, in order
  pendingSends,        \* sends waiting for sessionPromise to resolve
  log,                 \* one record per onaudioprocess call
  scheduled,           \* one record per source.start call
  stopped,             \* handle ids on which stop() was called
  hostErrors,          \* errors passed to callbacks.onError, in order
  connectOutcome,      \* "none" | "resolved" | "rejected": connect()'s promise
  hostDisconnects,     \* number of callbacks.onDisconnect calls
  dropped,             \* number of audio chunks whose decoding failed
  updates,             \* messages passed to callbacks.onMessageUpdate
  turnCompletes,       \* number of turnComplete signals received
  interruptions,       \* number of interrupted events handled
  received             \* number of inbound messages handled

vars == <<inputAudioContext, outputAudioContext, outputGainNode, stream,
          inputProcessor, volumeInterval, sessionPromise, isMuted,
          silenceThreshold, maxPreRollFrames, preRollBuffer, isSpeechActive,
          silenceFrameCount, nextStartTime, sources, currentTurnId,
          currentRole, currentTranscript, currentTime, connectPc, fault,
          decoding, transport, outputGain, disconnectPc, downsample,
          sent, pendingSends, log, scheduled, stopped, hostErrors,
          connectOutcome, hostDisconnects, dropped, updates, turnCompletes,
          interruptions, received, sampleRate, useLocalVoice, orphans, interviewPc>>

resourceVars == <<inputAudioContext, outputAudioContext, outputGainNode,
                  stream, inputProcessor, volumeInterval, sessionPromise,
                  transport, outputGain>>
configVars == <<silenceThreshold, maxPreRollFrames>>
vadVars == <<preRollBuffer, isSpeechActive, silenceFrameCount>>
playVars == <<nextStartTime, sources, scheduled, stopped, dropped>>
turnVars == <<currentTurnId, currentRole, currentTranscript, updates,
              turnCompletes>>
connVars == <<connectPc, fault, hostErrors, connectOutcome, disconnectPc,
              hostDisconnects>>
modeVars == <<sampleRate, useLocalVoice, orphans, interviewPc>>

----------------------------------------------------------------------------
\* Program constants

DefaultSilenceThreshold == 5
DefaultMaxPreRollFrames == 4
maxSilenceFrames == 8
FrameMs == 128
Lead == 50
TargetRate == 16000
DownsampleAbove == 24000
LargeBufferAbove == 30000
SmallBuffer == 2048
LargeBuffer == 4096

\* Bounds of the model

MaxFrames == 12
MaxScenarioFrames == 18
MaxRuns == 3
MaxMuteFrames == 5
MaxSessionFrames == 1
MaxMessages == 3
MaxClock == 200
Quantum == 50
MaxDisconnects == 2
MaxLifeFrames == 2
MaxLifeMessages == 2
MaxPlayMessages == 3
MaxOrderFrames == 5
MaxRateFrames == 5
MaxBufferFrames == 5
MaxVadFrames == 12
MaxInterviewFrames == 2
MaxTurnMessages == 4
MaxOwnerFrames == 2
MaxOwnerMessages == 2
MaxSamples == 4
MaxRate == 6

----------------------------------------------------------------------------
\* Session configuration (ConnectConfig.speechConfig)

NoConfig ==
  [present |-> FALSE, silenceThreshold |-> 0, preRollMs |-> 0,
   useLocalVoice |-> FALSE]
AppConfig ==
  [present |-> TRUE, silenceThreshold |-> 15, preRollMs |-> 300,
   useLocalVoice |-> FALSE]
ScenarioConfig ==
  [present |-> TRUE, silenceThreshold |-> 20, preRollMs |-> 250,
   useLocalVoice |-> FALSE]
ZeroConfig ==
  [present |-> TRUE, silenceThreshold |-> 0, preRollMs |-> 0,
   useLocalVoice |-> FALSE]

\* The app's config with local voice (or stealth mode) switched on
LocalVoiceConfig == [AppConfig EXCEPT !.useLocalVoice = TRUE]

Configs == {NoConfig, AppConfig, ScenarioConfig, ZeroConfig}

\* Math.ceil(a / b) for a >= 0, b > 0
Ceil(a, b) == (a + b - 1) \div b

\* connect(): "Apply Config".  A field that is 0 (falsy) keeps the default.
ConfigThreshold(config) ==
  IF config.present /\ config.silenceThreshold # 0
    THEN config.silenceThreshold
    ELSE DefaultSilenceThreshold

\* Variant that rounds the frame count down
ConfigPreRollFrames_Floor(config) ==
  IF config.present /\ config.preRollMs # 0
    THEN config.preRollMs \div FrameMs
    ELSE DefaultMaxPreRollFrames

ConfigPreRollFrames(config) ==
  IF config.present /\ config.preRollMs # 0
    THEN Ceil(config.preRollMs, FrameMs)
    ELSE DefaultMaxPreRollFrames

----------------------------------------------------------------------------
\* Capture pipeline

\* const bufferSize = this.inputAudioContext.sampleRate > 30000 ? 4096 : 2048
BufferSize(rate) == IF rate > LargeBufferAbove THEN LargeBuffer ELSE SmallBuffer

\* const needsDownsampling = inputRate > 24000
NeedsDownsampling(inputRate) == inputRate > DownsampleAbove

\* const finalRate = needsDownsampling ? targetRate : inputRate
FinalRate(inputRate) ==
  IF NeedsDownsampling(inputRate) THEN TargetRate ELSE inputRate

IsCurrentFrameSpeech(rms) == rms > silenceThreshold

\* Variants of the hangover test: strict, and one frame too long
WithinHangover_Strict(count) == count < maxSilenceFrames
WithinHangover_Late(count) == count <= maxSilenceFrames + 1

\* silenceFrameCount <= maxSilenceFrames after the increment
WithinHangover(count) == count <= maxSilenceFrames

\* Variant of addToPreRoll that drops the newest frame on overflow (pop)
AddToPreRoll_Pop(buffer, f) ==
  LET pushed == Append(buffer, f)
  IN IF Len(pushed) > maxPreRollFrames
       THEN SubSeq(pushed, 1, Len(pushed) - 1) ELSE pushed

\* Variant of addToPreRoll that never evicts
AddToPreRoll_Unbounded(buffer, f) == Append(buffer, f)

AddToPreRoll(buffer, f) ==
  LET pushed == Append(buffer, f)
  IN IF Len(pushed) > maxPreRollFrames THEN Tail(pushed) ELSE pushed

\* Variant of flushPreRoll that sends the newest frame first
FlushPreRoll_NewestFirst(buffer) ==
  [i \in 1..Len(buffer) |-> buffer[Len(buffer) + 1 - i]]

\* The chunks flushPreRoll hands to sendAudioChunk, in order
FlushPreRoll(buffer) == buffer

\* sendAudioChunk for each chunk of `chunks`, in order: the send is
\* registered on sessionPromise and runs when (and if) it is resolved.
SendAudioChunks(chunks) ==
  CASE sessionPromise = "resolved" ->
         /\ sent' = sent \o chunks
         /\ UNCHANGED pendingSends
    [] sessionPromise = "pending" ->
         /\ pendingSends' = pendingSends \o chunks
         /\ UNCHANGED sent
    [] OTHER -> UNCHANGED <<sent, pendingSends>>

VadSnapshot(active, count, buffer, nsent) ==
  [active |-> active, count |-> count, buffer |-> buffer, nsent |-> nsent]

\* Variant without the mute check
MuteGate_Open == FALSE

\* if (this.isMuted) return;
MuteGate == isMuted

\* Variant of setMuted that also resets the VAD
SetMuted_ResetsVad(muted) ==
  /\ isMuted' = muted
  /\ isSpeechActive' = FALSE
  /\ silenceFrameCount' = 0
  /\ preRollBuffer' = <<>>
  /\ UNCHANGED <<resourceVars, configVars, playVars, turnVars, currentTime,
                 connVars, decoding, sent, pendingSends, log, interruptions,
                 received, downsample, modeVars>>

\* setMuted(muted)
SetMuted(muted) ==
  /\ isMuted' = muted
  /\ UNCHANGED <<resourceVars, configVars, vadVars, playVars, turnVars,
                 currentTime, connVars, decoding, sent, pendingSends, log,
                 interruptions, received, downsample, modeVars>>

\* Variant of the speech branch that sends the current frame before the
\* pre-roll
VadStep_FlushAfter(f, rms) ==
  IF IsCurrentFrameSpeech(rms)
    THEN [count |-> 0,
          active |-> TRUE,
          buffer |-> IF ~isSpeechActive THEN <<>> ELSE preRollBuffer,
          chunks |-> <<f>> \o (IF ~isSpeechActive
                                 THEN FlushPreRoll(preRollBuffer) ELSE <<>>)]
  ELSE IF isSpeechActive
    THEN [count |-> silenceFrameCount + 1,
          active |-> WithinHangover(silenceFrameCount + 1),
          buffer |-> preRollBuffer,
          chunks |-> IF WithinHangover(silenceFrameCount + 1)
                       THEN <<f>> ELSE <<>>]
  ELSE [count |-> silenceFrameCount,
        active |-> FALSE,
        buffer |-> AddToPreRoll(preRollBuffer, f),
        chunks |-> <<>>]

\* Variant of the speech branch that leaves the flushed frames in the
\* pre-roll buffer
VadStep_KeepPreRoll(f, rms) ==
  IF IsCurrentFrameSpeech(rms)
    THEN [count |-> 0,
          active |-> TRUE,
          buffer |-> preRollBuffer,
          chunks |-> (IF ~isSpeechActive THEN FlushPreRoll(preRollBuffer)
                                         ELSE <<>>) \o <<f>>]
  ELSE IF isSpeechActive
    THEN [count |-> silenceFrameCount + 1,
          active |-> WithinHangover(silenceFrameCount + 1),
          buffer |-> preRollBuffer,
          chunks |-> IF WithinHangover(silenceFrameCount + 1)
                       THEN <<f>> ELSE <<>>]
  ELSE [count |-> silenceFrameCount,
        active |-> FALSE,
        buffer |-> AddToPreRoll(preRollBuffer, f),
        chunks |-> <<>>]

\* The "VAD Logic" of onaudioprocess for frame f of energy rms: the new
\* speech flag, silence counter and pre-roll buffer, and the chunks handed
\* to sendAudioChunk, in order.
VadStep(f, rms) ==
  IF IsCurrentFrameSpeech(rms)
    THEN [count |-> 0,
          active |-> TRUE,
          buffer |-> IF ~isSpeechActive THEN <<>> ELSE preRollBuffer,
          chunks |-> (IF ~isSpeechActive THEN FlushPreRoll(preRollBuffer)
                                         ELSE <<>>) \o <<f>>]
  ELSE IF isSpeechActive
    THEN IF WithinHangover(silenceFrameCount + 1)
           THEN [count |-> silenceFrameCount + 1,
                 active |-> TRUE,
                 buffer |-> preRollBuffer,
                 chunks |-> <<f>>]
           ELSE [count |-> silenceFrameCount + 1,
                 active |-> FALSE,
                 buffer |-> preRollBuffer,
                 chunks |-> <<>>]
  ELSE [count |-> silenceFrameCount,
        active |-> FALSE,
        buffer |-> AddToPreRoll(preRollBuffer, f),
        chunks |-> <<>>]

\* onaudioprocess for one frame whose processed data has energy rms; a
\* node with the callback gets frames while its context runs.  The log
\* records the call, the rate its chunks are tagged with and the VAD state
\* around it.
Frame(rms) ==
  /\ inputProcessor = "attached" \/ orphans > 0
  /\ inputAudioContext = "open"
  /\ LET f == Len(log) + 1
         before == VadSnapshot(isSpeechActive, silenceFrameCount,
                               preRollBuffer, Len(sent))
         step == VadStep(f, rms)
     IN IF MuteGate
          THEN /\ UNCHANGED <<vadVars, sent, pendingSends>>
               /\ log' = Append(log, [rms |-> rms, muted |-> isMuted,
                                      epoch |-> interruptions,
                                      rate |-> FinalRate(sampleRate),
                                      pre |-> before, post |-> before])
          ELSE /\ silenceFrameCount' = step.count
               /\ isSpeechActive' = step.active
               /\ preRollBuffer' = step.buffer
               /\ SendAudioChunks(step.chunks)
               /\ log' = Append(log, [rms |-> rms, muted |-> isMuted,
                                      epoch |-> interruptions,
                                      rate |-> FinalRate(sampleRate),
                                      pre |-> before,
                                      post |-> VadSnapshot(step.active,
                                                 step.count, step.buffer,
                                                 Len(sent'))])
  /\ UNCHANGED <<resourceVars, configVars, isMuted, playVars, turnVars,
                 currentTime, connVars, decoding, interruptions, received, downsample, modeVars>>

----------------------------------------------------------------------------
\* Transcript turns

\* crypto.randomUUID(): an id no earlier update carries
NewTurnId(out) ==
  LET used == {out[i].id : i \in 1..Len(out)}
  IN IF used = {} THEN 1
     ELSE 1 + CHOOSE x \in used : \A y \in used : y <= x

\* handleTranscript(text, role, isFinal) on the turn state
\* [id, role, text, out]; out is what onMessageUpdate has been given.
HandleTranscript(turn, text, role, isFinal) ==
  IF text = <<>> THEN turn
  ELSE LET fresh == turn.role # role \/ turn.id = 0
           id == IF fresh THEN NewTurnId(turn.out) ELSE turn.id
           transcript == (IF fresh THEN <<>> ELSE turn.text) \o text
       IN [id |-> id, role |-> role, text |-> transcript,
           out |-> Append(turn.out, [id |-> id, role |-> role,
                                     text |-> transcript,
                                     isFinal |-> isFinal])]

\* handleMessage: if (serverContent.turnComplete) { ... }
TurnComplete(turn) ==
  IF turn.id # 0
    THEN [id |-> 0, role |-> turn.role, text |-> <<>>,
          out |-> Append(turn.out, [id |-> turn.id, role |-> turn.role,
                                    text |-> turn.text, isFinal |-> TRUE])]
    ELSE turn

\* if (this.useLocalVoice && serverContent.modelTurn?.parts?.[0]?.text)
LocalVoiceText(m) == useLocalVoice /\ m.text # <<>>

\* The synchronous head of handleMessage: transcripts, then either the
\* model's text handled as a final transcript (local voice) or turnComplete
MessageHead(m) ==
  LET t0 == [id |-> currentTurnId, role |-> currentRole,
             text |-> currentTranscript, out |-> updates]
      t1 == HandleTranscript(t0, m.inText, "user", FALSE)
      t2 == HandleTranscript(t1, m.outText, "assistant", FALSE)
  IN IF LocalVoiceText(m) THEN HandleTranscript(t2, m.text, "assistant", TRUE)
     ELSE IF m.turnComplete THEN TurnComplete(t2)
     ELSE t2

----------------------------------------------------------------------------
\* Playback scheduler

\* Variant that restarts the schedule at now + lead for every buffer
ScheduleStart_Restart(now, next) == now + Lead

\* Variant that adds the lead to every buffer
ScheduleStart_AlwaysLead(now, next) ==
  (IF next < now THEN now ELSE next) + Lead

\* if (this.nextStartTime < now) this.nextStartTime = now + 0.05;
\* source.start(this.nextStartTime)
ScheduleStart(now, next) == IF next < now THEN now + Lead ELSE next

\* The scheduling of one decoded buffer of duration dur on the playback
\* state [nextStartTime, sources, scheduled, stopped]; a handle is named by
\* its place in the order of source.start calls.  The record of the call
\* keeps the clock (now) and the schedule (prev) it found, and how many
\* interruptions had been handled when the chunk arrived and when it was
\* scheduled.
Schedule(dur, arrived) ==
  LET now == currentTime
      start == ScheduleStart(now, nextStartTime)
      handle == Len(scheduled) + 1
  IN [nextStartTime |-> start + dur,
      sources |-> sources \cup {handle},
      scheduled |-> Append(scheduled, [start |-> start, dur |-> dur,
                                       now |-> now,
                                       prev |-> nextStartTime,
                                       arrived |-> arrived,
                                       epoch |-> interruptions,
                                       gain |-> outputGain.value]),
      stopped |-> stopped]

PlayNow ==
  [nextStartTime |-> nextStartTime, sources |-> sources,
   scheduled |-> scheduled, stopped |-> stopped]

\* Variant of the interrupted clause that keeps the schedule clock
Interrupted_KeepClock(play, turnId) ==
  [nextStartTime |-> play.nextStartTime,
   sources |-> {},
   scheduled |-> play.scheduled,
   stopped |-> play.stopped \cup play.sources,
   currentTurnId |-> 0,
   isSpeechActive |-> FALSE,
   silenceFrameCount |-> 0,
   preRollBuffer |-> <<>>]

\* if (message.serverContent?.interrupted) { ... }
Interrupted(play, turnId) ==
  [nextStartTime |-> 0,
   sources |-> {},
   scheduled |-> play.scheduled,
   stopped |-> play.stopped \cup play.sources,
   currentTurnId |-> 0,
   isSpeechActive |-> FALSE,
   silenceFrameCount |-> 0,
   preRollBuffer |-> <<>>]

NotInterrupted(play, turnId) ==
  [nextStartTime |-> play.nextStartTime,
   sources |-> play.sources,
   scheduled |-> play.scheduled,
   stopped |-> play.stopped,
   currentTurnId |-> turnId,
   isSpeechActive |-> isSpeechActive,
   silenceFrameCount |-> silenceFrameCount,
   preRollBuffer |-> preRollBuffer]

\* The end of handleMessage for message m, the playback state being play and
\* the turn id turnId when it is reached.
MessageTail(m, play, turnId) ==
  LET end == IF m.interrupted THEN Interrupted(play, turnId)
                              ELSE NotInterrupted(play, turnId)
  IN /\ nextStartTime' = end.nextStartTime
     /\ sources' = end.sources
     /\ scheduled' = end.scheduled
     /\ stopped' = end.stopped
     /\ currentTurnId' = end.currentTurnId
     /\ isSpeechActive' = end.isSpeechActive
     /\ silenceFrameCount' = end.silenceFrameCount
     /\ preRollBuffer' = end.preRollBuffer
     /\ interruptions' = IF m.interrupted THEN interruptions + 1
                                          ELSE interruptions
     /\ UNCHANGED dropped

\* A handleMessage call suspended in decodeAudioData: its message, and the
\* number of interruptions handled when it arrived
Waiting(m) == [message |-> m, arrived |-> interruptions]

\* handleMessage(message), the transport's onmessage callback, up to its
\* first suspension: a message with audio waits in decodeAudioData; any
\* other runs to its end.  In local-voice mode a message with model text
\* waits for synthesizeLocalVoice() and returns, which skips turnComplete,
\* audio and interrupted; the synthesized source is not added to
\* `sources`.  The messages here carry no tool call.
HandleMessage(m) ==
  /\ transport = "open"
  /\ LET turn == MessageHead(m)
     IN /\ currentRole' = turn.role
        /\ currentTranscript' = turn.text
        /\ updates' = turn.out
        /\ IF LocalVoiceText(m) \/ (m.audio # 0 /\ outputAudioContext # "null")
             THEN /\ decoding' = IF LocalVoiceText(m) THEN decoding
                                  ELSE Append(decoding, Waiting(m))
                  /\ currentTurnId' = turn.id
                  /\ UNCHANGED <<vadVars, playVars, interruptions>>
             ELSE /\ MessageTail(m, PlayNow, turn.id)
                  /\ UNCHANGED decoding
  /\ turnCompletes' = IF m.turnComplete THEN turnCompletes + 1
                                        ELSE turnCompletes
  /\ received' = received + 1
  /\ UNCHANGED <<resourceVars, configVars, isMuted, currentTime, connVars,
                 sent, pendingSends, log, downsample, modeVars>>

\* decodeAudioData (utils/audioUtils) is asynchronous: the waiting calls
\* whose decode may be the next to end, which is any of them
Decoded == 1..Len(decoding)

\* decoding without its i-th waiting call
Settle(i) == SubSeq(decoding, 1, i - 1) \o SubSeq(decoding, i + 1, Len(decoding))

\* handleMessage resumed after decodeAudioData for the i-th waiting call:
\* the buffer is scheduled, then the interrupted clause runs.  Reading
\* currentTime of a context that disconnect() has set to null throws, and
\* the call ends there.
DecodeDone(i) ==
  /\ i \in 1..Len(decoding)
  /\ decoding' = Settle(i)
  /\ IF outputAudioContext # "null"
       THEN MessageTail(decoding[i].message,
                        Schedule(decoding[i].message.audio,
                                 decoding[i].arrived),
                        currentTurnId)
       ELSE UNCHANGED <<vadVars, playVars, currentTurnId, interruptions>>
  /\ UNCHANGED <<resourceVars, configVars, isMuted, currentRole,
                 currentTranscript, updates, turnCompletes, currentTime,
                 connVars, sent,
                 pendingSends, log, received, downsample, modeVars>>

\* The chunk of the i-th waiting call cannot be decoded: the awaited
\* decodeAudioData rejects, nothing catches it in handleMessage, and the
\* call ends there (its promise, which the transport ignores, rejects).
DecodeFailed(i) ==
  /\ i \in 1..Len(decoding)
  /\ decoding' = Settle(i)
  /\ dropped' = dropped + 1
  /\ UNCHANGED <<resourceVars, configVars, isMuted, vadVars, nextStartTime,
                 sources, scheduled, stopped, turnVars, currentTime,
                 connVars, sent, pendingSends, log, interruptions, received,
                 downsample, modeVars>>

\* source 'ended' listener: this.sources.delete(source), once the buffer
\* has played to its end
SourceEnded(h) ==
  /\ h \in sources
  /\ scheduled[h].start + scheduled[h].dur <= currentTime
  /\ sources' = sources \ {h}
  /\ UNCHANGED <<resourceVars, configVars, isMuted, vadVars, nextStartTime,
                 scheduled, stopped, dropped, turnVars, currentTime, connVars,
                 decoding, sent, pendingSends, log, interruptions, received, downsample, modeVars>>

\* The output context's clock advances while the context is open
Tick ==
  /\ outputAudioContext = "open"
  /\ currentTime' = currentTime + Quantum
  /\ UNCHANGED <<resourceVars, configVars, isMuted, vadVars, playVars,
                 turnVars, connVars, decoding, sent, pendingSends, log,
                 interruptions, received, downsample, modeVars>>

----------------------------------------------------------------------------
\* connect() and the session's open and error events

\* this.outputGainNode.gain.value = 1.0
FullVolume == [volume |-> 100, value |-> 100]

\* No downsampleBuffer call has been made
NoCall == [buffer |-> <<>>, inputRate |-> 0, outputRate |-> 0,
           result |-> [unchanged |-> TRUE, frame |-> <<>>], called |-> FALSE]

\* The state the constructor and the field initialisers leave
ConstructedService ==
  /\ inputAudioContext = "null"
  /\ outputAudioContext = "null"
  /\ outputGainNode = "null"
  /\ stream = "null"
  /\ inputProcessor = "null"
  /\ volumeInterval = "null"
  /\ sessionPromise = "null"
  /\ transport = "none"
  /\ outputGain = FullVolume
  /\ isMuted = FALSE
  /\ silenceThreshold = DefaultSilenceThreshold
  /\ maxPreRollFrames = DefaultMaxPreRollFrames
  /\ preRollBuffer = <<>>
  /\ isSpeechActive = FALSE
  /\ silenceFrameCount = 0
  /\ nextStartTime = 0
  /\ sources = {}
  /\ currentTurnId = 0
  /\ currentRole = "user"
  /\ currentTranscript = <<>>
  /\ currentTime = 0
  /\ connectPc = "idle"
  /\ fault = "none"
  /\ decoding = <<>>
  /\ disconnectPc = <<>>
  /\ sent = <<>>
  /\ pendingSends = <<>>
  /\ log = <<>>
  /\ scheduled = <<>>
  /\ stopped = {}
  /\ hostErrors = <<>>
  /\ connectOutcome = "none"
  /\ hostDisconnects = 0
  /\ dropped = 0
  /\ updates = <<>>
  /\ turnCompletes = 0
  /\ interruptions = 0
  /\ received = 0
  /\ sampleRate = 0
  /\ useLocalVoice = FALSE
  /\ orphans = 0
  /\ interviewPc = "idle"

Constructed == ConstructedService /\ downsample = NoCall

\* The errors getUserMedia rejects with: permission denied, no input device
MicErrors == {"NotAllowedError", "NotFoundError"}

\* connect(): both contexts, the analysers and the gain node (gain 1.0) are
\* created, then the call waits for getUserMedia.  The input context runs
\* at the device's rate.
ConnectStart(rate) ==
  /\ connectPc = "idle"
  /\ sampleRate' = rate
  /\ inputAudioContext' = "open"
  /\ outputAudioContext' = "open"
  /\ outputGainNode' = "node"
  /\ outputGain' = FullVolume
  /\ currentTime' = 0
  /\ connectPc' = "getUserMedia"
  /\ UNCHANGED <<stream, inputProcessor, volumeInterval, sessionPromise,
                 transport, configVars, isMuted, vadVars, playVars, turnVars,
                 fault, hostErrors, connectOutcome, disconnectPc,
                 hostDisconnects, decoding, sent, pendingSends, log,
                 interruptions, received, downsample, useLocalVoice, orphans,
                 interviewPc>>

\* catch (error) { this.callbacks.onError(...) }: the error goes to the
\* host's callback and the async function returns normally.
ConnectCatch(error) ==
  /\ hostErrors' = Append(hostErrors, error)
  /\ connectOutcome' = "resolved"
  /\ connectPc' = "done"

\* getUserMedia resolves: the stream is kept, the config applied (config is
\* the argument of the connect() call, first read here), and the call waits
\* for summaryService.getContextString().
MicGranted(config) ==
  /\ connectPc = "getUserMedia"
  /\ stream' = "live"
  /\ silenceThreshold' = ConfigThreshold(config)
  /\ maxPreRollFrames' = ConfigPreRollFrames(config)
  /\ useLocalVoice' = config.useLocalVoice
  /\ connectPc' = "getContextString"
  /\ UNCHANGED <<inputAudioContext, outputAudioContext, outputGainNode,
                 inputProcessor, volumeInterval, sessionPromise, transport,
                 outputGain, isMuted, vadVars, playVars, turnVars,
                 currentTime, fault, hostErrors, connectOutcome,
                 disconnectPc, hostDisconnects, decoding, sent, pendingSends,
                 log, interruptions, received, downsample, sampleRate,
                 orphans, interviewPc>>

\* getUserMedia rejects
MicFailed(error) ==
  /\ connectPc = "getUserMedia"
  /\ fault' = error
  /\ ConnectCatch(error)
  /\ UNCHANGED <<resourceVars, configVars, isMuted, vadVars, playVars,
                 turnVars, currentTime, disconnectPc, hostDisconnects,
                 decoding, sent, pendingSends, log, interruptions, received,
                 downsample, modeVars>>

\* The summaries are read: ai.live.connect() is called and its promise kept
\* without waiting for it, the telemetry timer starts, connect() returns.
SessionRequested ==
  /\ connectPc = "getContextString"
  /\ sessionPromise' = "pending"
  /\ transport' = "connecting"
  /\ volumeInterval' = "set"
  /\ connectOutcome' = "resolved"
  /\ connectPc' = "done"
  /\ UNCHANGED <<inputAudioContext, outputAudioContext, outputGainNode,
                 stream, inputProcessor, outputGain, configVars, isMuted,
                 vadVars, playVars, turnVars, currentTime, fault, hostErrors,
                 disconnectPc, hostDisconnects, decoding, sent, pendingSends,
                 log, interruptions, received, downsample, modeVars>>

\* Reading the summaries from storage rejects
SummaryFailed ==
  /\ connectPc = "getContextString"
  /\ fault' = "storage"
  /\ ConnectCatch("StorageError")
  /\ UNCHANGED <<resourceVars, configVars, isMuted, vadVars, playVars,
                 turnVars, currentTime, disconnectPc, hostDisconnects,
                 decoding, sent, pendingSends, log, interruptions, received,
                 downsample, modeVars>>

\* The capture graph as it is, and with a new processor attached: the
\* field is overwritten, so a processor it referred to stays in the graph
\* with its callback.
SameGraph == [inputProcessor |-> inputProcessor, orphans |-> orphans]
NewProcessor ==
  [inputProcessor |-> "attached",
   orphans |-> IF inputProcessor = "attached" THEN orphans + 1 ELSE orphans]

\* startAudioInput(): the capture graphs it can leave.  It returns at once
\* without a context or a stream.  On a context that close() was called
\* on, creating the nodes either throws (nothing changes) or succeeds with
\* a processor that never gets a frame.
StartAudioInput ==
  IF inputAudioContext = "null" \/ stream = "null"
    THEN {SameGraph}
  ELSE IF inputAudioContext = "closed"
    THEN {SameGraph, NewProcessor}
  ELSE {NewProcessor}

\* What the promise ai.live.connect() returned does to the field that may
\* still hold it
Settled(outcome) == IF sessionPromise = "pending" THEN outcome ELSE sessionPromise

\* The transport opens: handleOpen() runs startAudioInput(), and the
\* session promise resolves, which runs the sends that waited for it.  The
\* handshake takes longer than one render quantum of the running output
\* context, so the output clock has left 0 by then.
SessionOpened ==
  /\ transport = "connecting"
  /\ outputAudioContext = "open" => currentTime > 0
  /\ transport' = "open"
  /\ \E graph \in StartAudioInput :
       inputProcessor' = graph.inputProcessor /\ orphans' = graph.orphans
  /\ sessionPromise' = Settled("resolved")
  /\ sent' = sent \o pendingSends
  /\ pendingSends' = <<>>
  /\ UNCHANGED <<inputAudioContext, outputAudioContext, outputGainNode,
                 stream, volumeInterval, outputGain, configVars, isMuted,
                 vadVars, playVars, turnVars, currentTime, connVars,
                 decoding, log, interruptions, received, downsample,
                 sampleRate, useLocalVoice, interviewPc>>

\* The two halves of the transport's opening, for the frames that may come
\* between them: onopen runs handleOpen(), which attaches the frame
\* callback ...
HandleOpen ==
  /\ transport = "connecting"
  /\ outputAudioContext = "open" => currentTime > 0
  /\ transport' = "open"
  /\ \E graph \in StartAudioInput :
       inputProcessor' = graph.inputProcessor /\ orphans' = graph.orphans
  /\ UNCHANGED <<inputAudioContext, outputAudioContext, outputGainNode,
                 stream, volumeInterval, sessionPromise, outputGain,
                 configVars, isMuted, vadVars, playVars, turnVars,
                 currentTime, connVars, decoding, sent, pendingSends, log,
                 interruptions, received, downsample, sampleRate,
                 useLocalVoice, interviewPc>>

\* ... and the promise ai.live.connect() returned resolves with the
\* session, which runs the sends registered on it in their order.
SessionResolved ==
  /\ transport = "open"
  /\ sessionPromise = "pending"
  /\ sessionPromise' = "resolved"
  /\ sent' = sent \o pendingSends
  /\ pendingSends' = <<>>
  /\ UNCHANGED <<inputAudioContext, outputAudioContext, outputGainNode,
                 stream, inputProcessor, volumeInterval, transport,
                 outputGain, configVars, isMuted, vadVars, playVars,
                 turnVars, currentTime, connVars, decoding, log,
                 interruptions, received, downsample, modeVars>>

\* startInterviewMode() up to its first await: it returns at once without
\* an input context, else asks for the system audio and the microphone.
InterviewStart ==
  /\ interviewPc = "idle"
  /\ connectPc = "done"
  /\ interviewPc' = IF inputAudioContext = "null" THEN "done" ELSE "getMedia"
  /\ UNCHANGED <<resourceVars, configVars, isMuted, vadVars, playVars,
                 turnVars, currentTime, connVars, decoding, sent,
                 pendingSends, log, interruptions, received, downsample,
                 sampleRate, useLocalVoice, orphans>>

\* The processor startInterviewMode() drops keeps its onaudioprocess
\* callback and its input; only its output is disconnected.  Whether such
\* a node still gets frames depends on the browser.
DroppedProcessor ==
  IF inputProcessor = "attached" THEN {orphans, orphans + 1} ELSE {orphans}

\* Both streams are granted: they are mixed into a new stream, which
\* replaces `stream`; the old processor is dropped and startAudioInput()
\* attaches a new one.  Without an input context the call throws; on a
\* closed one creating the nodes may throw.
InterviewGranted ==
  /\ interviewPc = "getMedia"
  /\ \/ /\ inputAudioContext # "null"
        /\ stream' = "live"
        /\ inputProcessor' = "attached"
        /\ orphans' \in DroppedProcessor
        /\ interviewPc' = "done"
     \/ /\ inputAudioContext # "open"
        /\ interviewPc' = "rejected"
        /\ UNCHANGED <<stream, inputProcessor, orphans>>
  /\ UNCHANGED <<inputAudioContext, outputAudioContext, outputGainNode,
                 volumeInterval, sessionPromise, transport, outputGain,
                 configVars, isMuted, vadVars, playVars, turnVars,
                 currentTime, connVars, decoding, sent, pendingSends, log,
                 interruptions, received, downsample, sampleRate,
                 useLocalVoice>>

\* The user dismisses the screen picker or the microphone prompt: the
\* call rethrows the error.
InterviewDenied ==
  /\ interviewPc = "getMedia"
  /\ interviewPc' = "rejected"
  /\ UNCHANGED <<resourceVars, configVars, isMuted, vadVars, playVars,
                 turnVars, currentTime, connVars, decoding, sent,
                 pendingSends, log, interruptions, received, downsample,
                 sampleRate, useLocalVoice, orphans>>

\* The remote session cannot be established: the transport calls onerror,
\* which reports Error('Connection error'); the session promise, which
\* nothing awaits, rejects.
SessionFailed ==
  /\ transport = "connecting"
  /\ transport' = "failed"
  /\ sessionPromise' = Settled("rejected")
  /\ fault' = "transport"
  /\ hostErrors' = Append(hostErrors, "Connection error")
  /\ pendingSends' = <<>>
  /\ UNCHANGED <<inputAudioContext, outputAudioContext, outputGainNode,
                 stream, inputProcessor, volumeInterval, outputGain,
                 configVars, isMuted, vadVars, playVars, turnVars,
                 currentTime, connectPc, connectOutcome, disconnectPc,
                 hostDisconnects, decoding, sent, log, interruptions,
                 received, downsample, modeVars>>

\* The open session reports an error: onerror logs it and calls
\* callbacks.onError(new Error('Connection error')), nothing else.
TransportError ==
  /\ transport = "open"
  /\ transport' = "failed"
  /\ hostErrors' = Append(hostErrors, "Connection error")
  /\ UNCHANGED <<inputAudioContext, outputAudioContext, outputGainNode,
                 stream, inputProcessor, volumeInterval, sessionPromise,
                 outputGain, configVars, isMuted, vadVars, playVars,
                 turnVars, currentTime, connectPc, fault, connectOutcome,
                 disconnectPc, hostDisconnects, decoding, sent, pendingSends,
                 log, interruptions, received, downsample, modeVars>>

\* The session closes (after an error or on the remote side's initiative):
\* onclose calls callbacks.onDisconnect() and stopScreenShare().
TransportClosed ==
  /\ transport \in {"open", "failed"}
  /\ transport' = "closed"
  /\ hostDisconnects' = hostDisconnects + 1
  /\ UNCHANGED <<inputAudioContext, outputAudioContext, outputGainNode,
                 stream, inputProcessor, volumeInterval, sessionPromise,
                 outputGain, configVars, isMuted, vadVars, playVars,
                 turnVars, currentTime, connectPc, fault, hostErrors,
                 connectOutcome, disconnectPc, decoding, sent, pendingSends,
                 log, interruptions, received, downsample, modeVars>>

----------------------------------------------------------------------------
\* disconnect()

\* The fields disconnect() reads and writes, and the call's position
DisconnectFields ==
  [inputProcessor |-> inputProcessor, stream |-> stream,
   inputAudioContext |-> inputAudioContext,
   outputAudioContext |-> outputAudioContext,
   outputGainNode |-> outputGainNode, volumeInterval |-> volumeInterval,
   sources |-> sources, stopped |-> stopped,
   preRollBuffer |-> preRollBuffer, sessionPromise |-> sessionPromise,
   hostDisconnects |-> hostDisconnects, pc |-> "start"]

\* The end of disconnect(): the telemetry timer is cleared, every source
\* stopped, the pre-roll buffer and the session promise dropped, and
\* callbacks.onDisconnect() called.
DisconnectTail(st) ==
  [st EXCEPT !.volumeInterval = "null",
             !.stopped = st.stopped \cup st.sources,
             !.sources = {},
             !.preRollBuffer = <<>>,
             !.sessionPromise = "null",
             !.hostDisconnects = st.hostDisconnects + 1,
             !.pc = "done"]

\* if (this.outputAudioContext) { await this.outputAudioContext.close(); ...
\* close() on a context that close() was already called on returns a
\* rejected promise (InvalidStateError), which the await throws.
CloseOutput(st) ==
  IF st.outputAudioContext = "null" THEN DisconnectTail(st)
  ELSE IF st.outputAudioContext = "closed" THEN [st EXCEPT !.pc = "rejected"]
  ELSE [st EXCEPT !.outputAudioContext = "closed", !.pc = "closeOutput"]

\* Variant without the null check: close() is called on whatever the field
\* holds
CloseInput_Unguarded(st) ==
  IF st.inputAudioContext \in {"null", "closed"}
    THEN [st EXCEPT !.pc = "rejected"]
    ELSE [st EXCEPT !.inputAudioContext = "closed", !.pc = "closeInput"]

\* if (this.inputAudioContext) { await this.inputAudioContext.close(); ...
CloseInput(st) ==
  IF st.inputAudioContext = "null" THEN CloseOutput(st)
  ELSE IF st.inputAudioContext = "closed" THEN [st EXCEPT !.pc = "rejected"]
  ELSE [st EXCEPT !.inputAudioContext = "closed", !.pc = "closeInput"]

\* disconnect() from its start to its first await, or to its end
DisconnectHead(st) ==
  CloseInput([st EXCEPT !.inputProcessor = "null", !.stream = "null"])

\* disconnect() after the close() it awaited has resolved
DisconnectResume(st, pc) ==
  IF pc = "closeInput"
    THEN CloseOutput([st EXCEPT !.inputAudioContext = "null"])
    ELSE DisconnectTail([st EXCEPT !.outputAudioContext = "null",
                                   !.outputGainNode = "null"])

\* The fields as a step of disconnect() leaves them.  disconnect() leaves
\* isSpeechActive and silenceFrameCount alone.
DisconnectStep(st) ==
  /\ inputProcessor' = st.inputProcessor
  /\ stream' = st.stream
  /\ inputAudioContext' = st.inputAudioContext
  /\ outputAudioContext' = st.outputAudioContext
  /\ outputGainNode' = st.outputGainNode
  /\ volumeInterval' = st.volumeInterval
  /\ sources' = st.sources
  /\ stopped' = st.stopped
  /\ preRollBuffer' = st.preRollBuffer
  /\ sessionPromise' = st.sessionPromise
  /\ hostDisconnects' = st.hostDisconnects
  /\ UNCHANGED <<isSpeechActive, silenceFrameCount, transport, outputGain,
                 configVars, isMuted, nextStartTime,
                 scheduled, dropped, turnVars, currentTime, connectPc,
                 fault, hostErrors, connectOutcome, decoding, sent,
                 pendingSends, log, interruptions, received, downsample, modeVars>>

\* A call of disconnect()
Disconnect ==
  LET st == DisconnectHead(DisconnectFields)
  IN /\ DisconnectStep(st)
     /\ disconnectPc' = Append(disconnectPc, [pc |-> st.pc, at |-> connectPc,
                                              session |-> transport])

\* The close() that the k-th disconnect() call awaits resolves
ContextClosed(k) ==
  /\ k \in 1..Len(disconnectPc)
  /\ disconnectPc[k].pc \in {"closeInput", "closeOutput"}
  /\ LET st == DisconnectResume(DisconnectFields, disconnectPc[k].pc)
     IN /\ DisconnectStep(st)
        /\ disconnectPc' = [disconnectPc EXCEPT ![k].pc = st.pc]

\* Variant of the clamp without the upper limit
Clamp_NoUpper(volume) == IF volume > 0 THEN volume ELSE 0

\* Math.max(0, Math.min(1, volume)), in hundredths
Clamp(volume) ==
  LET capped == IF volume < 100 THEN volume ELSE 100
  IN IF capped > 0 THEN capped ELSE 0

\* setOutputVolume(volume), volume in hundredths
SetOutputVolume(volume) ==
  /\ outputGain' = IF outputGainNode # "null"
                     THEN [volume |-> volume, value |-> Clamp(volume)]
                     ELSE outputGain
  /\ UNCHANGED <<inputAudioContext, outputAudioContext, outputGainNode,
                 stream, inputProcessor, volumeInterval, sessionPromise,
                 transport, configVars, isMuted, vadVars, playVars, turnVars,
                 currentTime, connVars, decoding, sent, pendingSends, log,
                 interruptions, received, downsample, modeVars>>

----------------------------------------------------------------------------
\* The state of a session that connect(config) and the transport's open
\* event have set up on a device running at `rate`: both contexts open,
\* the microphone live, the frame callback attached, the session promise
\* resolved.  The output context was created at the start of connect() and
\* has been running through the microphone prompt and the session
\* handshake: its clock is past 0.

ConnectedAt(config, muted, rate) ==
  /\ sampleRate = rate
  /\ useLocalVoice = config.useLocalVoice
  /\ orphans = 0
  /\ interviewPc = "idle"
  /\ inputAudioContext = "open"
  /\ outputAudioContext = "open"
  /\ outputGainNode = "node"
  /\ stream = "live"
  /\ inputProcessor = "attached"
  /\ volumeInterval = "set"
  /\ sessionPromise = "resolved"
  /\ transport = "open"
  /\ outputGain = FullVolume
  /\ isMuted = muted
  /\ silenceThreshold = ConfigThreshold(config)
  /\ maxPreRollFrames = ConfigPreRollFrames(config)
  /\ preRollBuffer = <<>>
  /\ isSpeechActive = FALSE
  /\ silenceFrameCount = 0
  /\ nextStartTime = 0
  /\ sources = {}
  /\ currentTurnId = 0
  /\ currentRole = "user"
  /\ currentTranscript = <<>>
  /\ currentTime = Quantum
  /\ connectPc = "done"
  /\ fault = "none"
  /\ decoding = <<>>
  /\ disconnectPc = <<>>
  /\ downsample = NoCall
  /\ sent = <<>>
  /\ pendingSends = <<>>
  /\ log = <<>>
  /\ scheduled = <<>>
  /\ stopped = {}
  /\ hostErrors = <<>>
  /\ connectOutcome = "resolved"
  /\ hostDisconnects = 0
  /\ dropped = 0
  /\ updates = <<>>
  /\ turnCompletes = 0
  /\ interruptions = 0
  /\ received = 0

\* The same on a device running at the target rate, where a frame of 2048
\* samples lasts FrameMs
ConnectedState(config, muted) == ConnectedAt(config, muted, TargetRate)

\* Frame energies: the loudest frame that is still silence (RMS equal to
\* the threshold) and the quietest frame that is speech
RmsInputs == {silenceThreshold, silenceThreshold + 1}

InitCapture == \E config \in Configs : ConnectedState(config, FALSE)

NextCapture ==
  \E rms \in RmsInputs : Len(log) < MaxFrames /\ Frame(rms)

SpecCapture == InitCapture /\ [][NextCapture]_vars

----------------------------------------------------------------------------
\* Capture, with the app's config, on devices of different native rates

NativeRates == {8000, TargetRate, 22050, DownsampleAbove, 44100, 48000}

InitRates == \E rate \in NativeRates : ConnectedAt(AppConfig, FALSE, rate)

NextRates ==
  \E rms \in RmsInputs : Len(log) < MaxRateFrames /\ Frame(rms)

SpecRates == InitRates /\ [][NextRates]_vars

----------------------------------------------------------------------------
\* Capture with the host toggling the microphone mute.  The host may call
\* setMuted before connect(), so a session can start muted.

InitMute ==
  \E config \in Configs : \E muted \in BOOLEAN : ConnectedState(config, muted)

NextMute ==
  \/ \E rms \in RmsInputs : Len(log) < MaxMuteFrames /\ Frame(rms)
  \/ \E muted \in BOOLEAN : SetMuted(muted)

SpecMute == InitMute /\ [][NextMute]_vars

----------------------------------------------------------------------------
\* An open session: captured frames, inbound messages, decodes completing
\* in any order, the output clock and buffers playing to their end.

Durations == {Quantum, 3 * Quantum}

Empty ==
  [inText |-> <<>>, outText |-> <<>>, text |-> <<>>, turnComplete |-> FALSE,
   audio |-> 0, interrupted |-> FALSE]

\* Server messages carrying one item each, and an audio chunk that also
\* carries the interrupted flag
Messages ==
  {[Empty EXCEPT !.inText = <<"w">>], [Empty EXCEPT !.outText = <<"w">>],
   [Empty EXCEPT !.turnComplete = TRUE], [Empty EXCEPT !.interrupted = TRUE]}
  \cup {[Empty EXCEPT !.audio = d] : d \in Durations}
  \cup {[Empty EXCEPT !.audio = d, !.interrupted = TRUE] : d \in Durations}

InitSession == ConnectedState(AppConfig, FALSE)

NextSession ==
  \/ \E rms \in RmsInputs : Len(log) < MaxSessionFrames /\ Frame(rms)
  \/ \E m \in Messages : received < MaxMessages /\ HandleMessage(m)
  \/ \E i \in Decoded : DecodeDone(i)
  \/ \E h \in sources : SourceEnded(h)
  \/ currentTime + Quantum <= MaxClock /\ Tick

SpecSession == InitSession /\ [][NextSession]_vars

----------------------------------------------------------------------------
\* A service from its construction through one connect() call, as
\* App.handleConnect makes it (a new service for every connection).

InitConnect == Constructed

NextConnect ==
  \/ ConnectStart(TargetRate)
  \/ \E config \in Configs : MicGranted(config)
  \/ \E error \in MicErrors : MicFailed(error)
  \/ SessionRequested
  \/ SummaryFailed
  \/ SessionOpened
  \/ SessionFailed
  \/ \E muted \in BOOLEAN : SetMuted(muted)
  \/ \E rms \in RmsInputs : Len(log) < MaxSessionFrames /\ Frame(rms)
  \/ currentTime + Quantum <= MaxClock /\ Tick

SpecConnect == InitConnect /\ [][NextConnect]_vars

----------------------------------------------------------------------------
\* downsampleBuffer(buffer, inputRate, outputRate)
\*
\* ratio = inputRate / outputRate is kept as the pair of rates, so the
\* operand of each Math.round is an exact fraction num / den.  The code
\* computes that operand in floating point: off an exact tie k + 1/2 the
\* error cannot change the rounding, on a tie it can make Math.round give k
\* instead of k + 1.  `down` decides that for each call.

\* Math.round(num / den) for num >= 0, den > 0
MathRound(num, den, down) ==
  LET up == (2 * num + den) \div (2 * den)
      tie == (2 * num) % den = 0 /\ ((2 * num) \div den) % 2 = 1
  IN IF tie /\ down THEN up - 1 ELSE up

\* Variant that truncates
NewLength_Floor(n, inputRate, outputRate, down) ==
  (n * outputRate) \div inputRate

\* newLength = Math.round(buffer.length / ratio); down is the set of the
\* Math.round calls (0 for this one, k for the k-th bucket end) whose tie,
\* if any, goes down
NewLength(n, inputRate, outputRate, down) ==
  MathRound(n * outputRate, inputRate, 0 \in down)

\* nextOffsetBuffer = Math.round((offsetResult + 1) * ratio)
NextOffsetBuffer(offsetResult, inputRate, outputRate, down) ==
  MathRound((offsetResult + 1) * inputRate, outputRate,
            (offsetResult + 1) \in down)

\* for (let i = offsetBuffer; i < nextOffsetBuffer && i < buffer.length; i++)
\*   { accum += buffer[i]; count++; }        (buffer[i] is buffer[i + 1] here)
RECURSIVE Accumulate(_, _, _, _)
Accumulate(buffer, i, nextOffsetBuffer, acc) ==
  IF i < nextOffsetBuffer /\ i < Len(buffer)
    THEN Accumulate(buffer, i + 1, nextOffsetBuffer,
                    [accum |-> acc.accum + buffer[i + 1],
                     count |-> acc.count + 1])
    ELSE acc

\* while (offsetResult < newLength) { ... }.  An element of the result is
\* kept as the pair [accum, count]: its value is accum / count, or 0 when
\* count is 0.
RECURSIVE Decimate(_, _, _, _, _, _, _, _)
Decimate(buffer, inputRate, outputRate, down, newLength, offsetResult, offsetBuffer, result) ==
  IF offsetResult < newLength
    THEN LET next == NextOffsetBuffer(offsetResult, inputRate, outputRate,
                                      down)
             acc == Accumulate(buffer, offsetBuffer, next,
                               [accum |-> 0, count |-> 0])
         IN Decimate(buffer, inputRate, outputRate, down, newLength,
                     offsetResult + 1, next, Append(result, acc))
    ELSE result

DownsampleBuffer(buffer, inputRate, outputRate, down) ==
  IF outputRate >= inputRate
    THEN [unchanged |-> TRUE, frame |-> buffer]
    ELSE [unchanged |-> FALSE,
          frame |-> Decimate(buffer, inputRate, outputRate, down,
                             NewLength(Len(buffer), inputRate, outputRate,
                                       down),
                             0, 0, <<>>)]

\* The call downsampleBuffer(buffer, inputRate, outputRate) about to be made
Call(buffer, inputRate, outputRate) ==
  [NoCall EXCEPT !.buffer = buffer, !.inputRate = inputRate,
                 !.outputRate = outputRate]

\* The call runs and returns its result
Downsample(down) ==
  /\ ~downsample.called
  /\ downsample' = [downsample EXCEPT
                      !.result = DownsampleBuffer(downsample.buffer,
                                                  downsample.inputRate,
                                                  downsample.outputRate,
                                                  down),
                      !.called = TRUE]
  /\ UNCHANGED <<resourceVars, configVars, isMuted, vadVars, playVars,
                 turnVars, currentTime, connVars, decoding, sent,
                 pendingSends, log, interruptions, received, modeVars>>

\* Frames of up to MaxSamples samples, positive rates up to MaxRate
Samples == {0 - 1, 0, 1}
Buffers == UNION {[1..n -> Samples] : n \in 0..MaxSamples}
Rates == 1..MaxRate

InitResample ==
  /\ ConstructedService
  /\ \E buffer \in Buffers : \E inputRate \in Rates : \E outputRate \in Rates :
       downsample = Call(buffer, inputRate, outputRate)

NextResample == \E down \in SUBSET (0..MaxSamples) : Downsample(down)

SpecResample == InitResample /\ [][NextResample]_vars

----------------------------------------------------------------------------
\* Playback in an open session: audio chunks arriving, their decoding
\* succeeding or failing, the host setting the output volume.

\* What the awaited decodeAudioData (utils/audioUtils) can do with a chunk:
\* give a playable buffer, or fail
DecodeOutcomes == {"buffer", "error"}

\* The volumes the host asks for, in hundredths: below the range, mute,
\* half, full, above the range
Volumes == {0 - 50, 0, 50, 100, 150}

PlayMessages ==
  {[Empty EXCEPT !.audio = d] : d \in Durations}
  \cup {[Empty EXCEPT !.interrupted = TRUE]}

InitPlayback == ConnectedState(AppConfig, FALSE)

NextPlayback ==
  \/ \E m \in PlayMessages : received < MaxPlayMessages /\ HandleMessage(m)
  \/ \E i \in Decoded : "buffer" \in DecodeOutcomes /\ DecodeDone(i)
  \/ \E i \in Decoded : "error" \in DecodeOutcomes /\ DecodeFailed(i)
  \/ \E volume \in Volumes : SetOutputVolume(volume)
  \/ \E h \in sources : SourceEnded(h)
  \/ currentTime + Quantum <= MaxClock /\ Tick

SpecPlayback == InitPlayback /\ [][NextPlayback]_vars

----------------------------------------------------------------------------
\* An open session with every party that touches the shared structures:
\* the frame callback, the message handler and its decodes, the host
\* (mute, output volume, disconnect), the ended listeners and the clock.

OwnerMessages ==
  {[Empty EXCEPT !.audio = Quantum], [Empty EXCEPT !.interrupted = TRUE]}

OwnerVolumes == {0, 100}

InitOwners == ConnectedState(AppConfig, FALSE)

NextOwners ==
  \/ \E rms \in RmsInputs : Len(log) < MaxOwnerFrames /\ Frame(rms)
  \/ \E m \in OwnerMessages :
       received < MaxOwnerMessages /\ HandleMessage(m)
  \/ \E i \in Decoded : DecodeDone(i)
  \/ \E h \in sources : SourceEnded(h)
  \/ \E muted \in BOOLEAN : SetMuted(muted)
  \/ \E volume \in OwnerVolumes : SetOutputVolume(volume)
  \/ disconnectPc = <<>> /\ Disconnect
  \/ \E k \in 1..Len(disconnectPc) : ContextClosed(k)
  \/ currentTime + Quantum <= MaxClock /\ Tick

SpecOwners == InitOwners /\ [][NextOwners]_vars

----------------------------------------------------------------------------
\* The pre-roll buffer under everything that writes it: frames, the host's
\* mute toggles, interrupted events and a disconnect().

BufferConfigs == {AppConfig, ScenarioConfig}

BufferMessages == {[Empty EXCEPT !.interrupted = TRUE]}

InitBuffer == \E config \in BufferConfigs : ConnectedState(config, FALSE)

NextBuffer ==
  \/ \E rms \in RmsInputs : Len(log) < MaxBufferFrames /\ Frame(rms)
  \/ \E muted \in BOOLEAN : SetMuted(muted)
  \/ \E m \in BufferMessages :
       received < MaxSessionFrames /\ HandleMessage(m)
  \/ disconnectPc = <<>> /\ Disconnect
  \/ \E k \in 1..Len(disconnectPc) : ContextClosed(k)

SpecBuffer == InitBuffer /\ [][NextBuffer]_vars

----------------------------------------------------------------------------
\* Transcript turns of an open session, with and without local voice

TurnConfigs == {AppConfig, LocalVoiceConfig}

TurnMessages ==
  {[Empty EXCEPT !.inText = <<"w">>], [Empty EXCEPT !.outText = <<"w">>],
   [Empty EXCEPT !.text = <<"w">>], [Empty EXCEPT !.turnComplete = TRUE],
   [Empty EXCEPT !.interrupted = TRUE]}

InitTurns == \E config \in TurnConfigs : ConnectedState(config, FALSE)

NextTurns ==
  \E m \in TurnMessages : received < MaxTurnMessages /\ HandleMessage(m)

SpecTurns == InitTurns /\ [][NextTurns]_vars

----------------------------------------------------------------------------
\* Stealth mode, as App.handleConnect runs it: connect() with local voice,
\* then startInterviewMode(), while the transport opens, frames are
\* captured and the host may disconnect.

InitInterview == Constructed

NextInterview ==
  \/ ConnectStart(TargetRate)
  \/ MicGranted(LocalVoiceConfig)
  \/ SessionRequested
  \/ SessionOpened
  \/ InterviewStart
  \/ InterviewGranted
  \/ InterviewDenied
  \/ disconnectPc = <<>> /\ Disconnect
  \/ \E k \in 1..Len(disconnectPc) : ContextClosed(k)
  \/ \E rms \in RmsInputs : Len(log) < MaxInterviewFrames /\ Frame(rms)
  \/ currentTime + Quantum <= Quantum /\ Tick

SpecInterview == InitInterview /\ [][NextInterview]_vars

----------------------------------------------------------------------------
\* Capture from the start of connect() on, with frames captured before the
\* session promise resolves, the host toggling the mute and the remote
\* side interrupting.

OrderMessages == {[Empty EXCEPT !.interrupted = TRUE]}

InitOrder == Constructed

NextOrder ==
  \/ ConnectStart(TargetRate)
  \/ MicGranted(AppConfig)
  \/ SessionRequested
  \/ HandleOpen
  \/ SessionResolved
  \/ \E rms \in RmsInputs : Len(log) < MaxOrderFrames /\ Frame(rms)
  \/ \E muted \in BOOLEAN : SetMuted(muted)
  \/ \E m \in OrderMessages : received < MaxSessionFrames /\ HandleMessage(m)
  \/ currentTime + Quantum <= Quantum /\ Tick

SpecOrder == InitOrder /\ [][NextOrder]_vars

----------------------------------------------------------------------------
\* The life of a service: one connect() call, disconnect() calls at any
\* point, the transport opening, failing and closing, captured frames and
\* inbound messages.

LifeMessages ==
  {[Empty EXCEPT !.inText = <<"w">>], [Empty EXCEPT !.audio = Quantum]}

InitLifecycle == Constructed

NextLifecycle ==
  \/ ConnectStart(TargetRate)
  \/ MicGranted(AppConfig)
  \/ \E error \in MicErrors : MicFailed(error)
  \/ SessionRequested
  \/ SummaryFailed
  \/ SessionOpened
  \/ SessionFailed
  \/ TransportError
  \/ TransportClosed
  \/ Len(disconnectPc) < MaxDisconnects /\ Disconnect
  \/ \E k \in 1..Len(disconnectPc) : ContextClosed(k)
  \/ \E rms \in RmsInputs : Len(log) < MaxLifeFrames /\ Frame(rms)
  \/ \E m \in LifeMessages : received < MaxLifeMessages /\ HandleMessage(m)
  \/ \E i \in Decoded : DecodeDone(i)
  \/ \E h \in sources : SourceEnded(h)
  \/ currentTime + Quantum <= MaxClock /\ Tick

SpecLifecycle == InitLifecycle /\ [][NextLifecycle]_vars

----------------------------------------------------------------------------
\* The concrete scenario: threshold 0.02, preRollMs 250; 5 silent frames
\* (RMS 0.001), 3 speech frames (RMS 0.05), 10 silent frames.

ScenarioFrames ==
  <<1, 1, 1, 1, 1, 50, 50, 50, 1, 1, 1, 1, 1, 1, 1, 1, 1, 1>>

ScenarioRms == {ScenarioFrames[i] : i \in 1..Len(ScenarioFrames)}

\* The number of maximal runs of equal energies in the log followed by rms
RunsWith(rms) ==
  LET all == [i \in 1..(Len(log) + 1) |->
                IF i <= Len(log) THEN log[i].rms ELSE rms]
  IN 1 + Cardinality({i \in 2..Len(all) : all[i] # all[i - 1]})

InitScenario == ConnectedState(ScenarioConfig, FALSE)

\* Frames of the scenario's two energies, in at most MaxRuns runs
NextScenario ==
  \E rms \in ScenarioRms :
    /\ Len(log) < MaxScenarioFrames
    /\ RunsWith(rms) <= MaxRuns
    /\ Frame(rms)

SpecScenario == InitScenario /\ [][NextScenario]_vars

----------------------------------------------------------------------------
\* The VAD over long runs of frames, with the remote side interrupting

VadMessages == {[Empty EXCEPT !.interrupted = TRUE]}

InitVad == ConnectedState(AppConfig, FALSE)

\* Frames in at most MaxRuns runs of equal energy
NextVad ==
  \/ \E rms \in RmsInputs :
       /\ Len(log) < MaxVadFrames
       /\ RunsWith(rms) <= MaxRuns
       /\ Frame(rms)
  \/ \E m \in VadMessages : received < MaxSessionFrames /\ HandleMessage(m)

SpecVad == InitVad /\ [][NextVad]_vars

----------------------------------------------------------------------------
\* Reading the frame log

Range(seq) == {seq[i] : i \in 1..Len(seq)}

\* The frames a..b in capture order
FramesFrom(a, b) == [k \in 1..(b - a + 1) |-> a + k - 1]

\* Frame i was processed unmuted with RMS <= threshold / RMS > threshold
SilentFrame(i) == ~log[i].muted /\ log[i].rms <= silenceThreshold
SpeechFrame(i) == ~log[i].muted /\ log[i].rms > silenceThreshold

\* What the transport received during the callbacks of frames i..j
SentDuring(i, j) == SubSeq(sent, log[i].pre.nsent + 1, log[j].post.nsent)

\* No interrupted event was handled between the callbacks of frames i and j
NoInterruption(i, j) == log[i].epoch = log[j].epoch

\* Frames s..s+n-1 are silent and frame s+n is speech, nothing in between
SilenceThenSpeech(s, n) ==
  /\ s + n <= Len(log)
  /\ \A i \in s..(s + n - 1) : SilentFrame(i)
  /\ SpeechFrame(s + n)
  /\ NoInterruption(s, s + n)

\* Frame s-1 is speech and frames s..e are silent, nothing in between
SpeechThenSilence(s, e) ==
  /\ 2 <= s /\ s <= e /\ e <= Len(log)
  /\ SpeechFrame(s - 1)
  /\ \A i \in s..e : SilentFrame(i)
  /\ NoInterruption(s - 1, e)

----------------------------------------------------------------------------
\* C1  Pre-roll completeness: when the VAD is Silent with an empty pre-roll
\* buffer and N <= capacity silent frames are followed by a speech frame,
\* the transport receives exactly those N frames and then the speech frame,
\* in capture order.
C1_PreRollCompleteness ==
  \A s \in 1..Len(log) : \A n \in 0..maxPreRollFrames :
    ( /\ SilenceThenSpeech(s, n)
      /\ ~log[s].pre.active
      /\ log[s].pre.buffer = <<>> )
    => SentDuring(s, s + n) = FramesFrom(s, s + n)

C1_Witness ==
  \E s \in 1..Len(log) :
    /\ maxPreRollFrames >= 2
    /\ SilenceThenSpeech(s, maxPreRollFrames)
    /\ ~log[s].pre.active
    /\ log[s].pre.buffer = <<>>
    /\ SentDuring(s, s + maxPreRollFrames) = FramesFrom(s, s + maxPreRollFrames)

\* C2  Pre-roll bounding: when the VAD is Silent and M > capacity silent
\* frames are followed by a speech frame, the frames flushed ahead of the
\* speech frame are the last `capacity` silent frames, oldest first, and
\* none of the older ones is ever forwarded.
C2_PreRollBounding ==
  \A s \in 1..Len(log) : \A m \in (maxPreRollFrames + 1)..Len(log) :
    ( /\ SilenceThenSpeech(s, m)
      /\ ~log[s].pre.active )
    => /\ SentDuring(s + m, s + m) = FramesFrom(s + m - maxPreRollFrames, s + m)
       /\ \A old \in s..(s + m - maxPreRollFrames - 1) : old \notin Range(sent)

C2_Witness ==
  \E s \in 1..Len(log) : \E m \in (maxPreRollFrames + 2)..Len(log) :
    /\ SilenceThenSpeech(s, m)
    /\ ~log[s].pre.active
    /\ SentDuring(s + m, s + m) = FramesFrom(s + m - maxPreRollFrames, s + m)
    /\ Len(log) > s + m

\* C3  Hangover tolerance: a run of k silent frames, 1 <= k <= hangover
\* limit, between two speech frames never makes the VAD Silent; the run and
\* both speech frames are forwarded and the silence counter is 0 after the
\* closing speech frame.
C3_HangoverTolerance ==
  \A s \in 2..Len(log) : \A k \in 1..maxSilenceFrames :
    ( /\ SpeechThenSilence(s, s + k - 1)
      /\ s + k <= Len(log)
      /\ SpeechFrame(s + k)
      /\ NoInterruption(s, s + k) )
    => /\ \A i \in (s - 1)..(s + k) : log[i].post.active
       /\ SentDuring(s, s + k) = FramesFrom(s, s + k)
       /\ log[s - 1].post.nsent > log[s - 1].pre.nsent
       /\ sent[log[s - 1].post.nsent] = s - 1
       /\ log[s + k].post.count = 0

C3_Witness ==
  \E s \in 2..Len(log) :
    /\ SpeechThenSilence(s, s + maxSilenceFrames - 1)
    /\ s + maxSilenceFrames <= Len(log)
    /\ SpeechFrame(s + maxSilenceFrames)
    /\ log[s + maxSilenceFrames - 1].post.count = maxSilenceFrames
    /\ log[s + maxSilenceFrames].post.active
    /\ SentDuring(s, s + maxSilenceFrames) = FramesFrom(s, s + maxSilenceFrames)

\* C4  Hangover expiry: after a speech frame, from the silent frame that
\* makes the run longer than the hangover limit onward, the VAD is Silent
\* and no frame of the run is forwarded.
C4_HangoverExpiry ==
  \A s \in 2..Len(log) : \A e \in s..Len(log) :
    SpeechThenSilence(s, e)
    => \A j \in (s + maxSilenceFrames)..e :
         /\ ~log[j].post.active
         /\ SentDuring(j, j) = <<>>

C4_Witness ==
  \E s \in 2..Len(log) :
    /\ SpeechThenSilence(s, s + maxSilenceFrames + 1)
    /\ log[s + maxSilenceFrames - 1].post.active
    /\ ~log[s + maxSilenceFrames].post.active
    /\ ~log[s + maxSilenceFrames + 1].post.active
    /\ s + maxSilenceFrames + 2 <= Len(log)
    /\ SpeechFrame(s + maxSilenceFrames + 2)
    /\ SentDuring(s + maxSilenceFrames, s + maxSilenceFrames + 1) = <<>>
    /\ SentDuring(s, s + maxSilenceFrames - 1)
         = FramesFrom(s, s + maxSilenceFrames - 1)

\* The log starts with the scenario's frames, all later frames silent
FedScenario ==
  /\ Len(log) >= Len(ScenarioFrames)
  /\ \A i \in 1..Len(ScenarioFrames) :
       ~log[i].muted /\ log[i].rms = ScenarioFrames[i]
  /\ \A i \in (Len(ScenarioFrames) + 1)..Len(log) : SilentFrame(i)

\* C5  Concrete scenario: with threshold 0.02, preRollMs 250 and hangover
\* 8, the capacity is 2 frames, and 5 silent, 3 speech and 10 silent frames
\* make the transport receive exactly frames 4..16 in order; the VAD is
\* Silent from frame 17 onward and frames 17, 18 (and later silent frames)
\* are not forwarded.
C5_Scenario ==
  FedScenario
  => /\ silenceThreshold = 20
     /\ maxPreRollFrames = 2
     /\ sent = FramesFrom(4, 16)
     /\ \A j \in 17..Len(log) :
          ~log[j].post.active /\ SentDuring(j, j) = <<>>
     /\ ~isSpeechActive

C5_Witness ==
  /\ FedScenario
  /\ sent = FramesFrom(4, 16)
  /\ log[16].post.active
  /\ ~log[17].post.active
  /\ preRollBuffer = <<18>>

\* What a muted frame leaves untouched, and what the VAD does with a frame
MutedFrameIsNoOp(i) ==
  /\ log[i].post = log[i].pre
  /\ i \notin Range(sent)
  /\ i \notin Range(preRollBuffer)

ProcessedByVad(i) ==
  LET pre == log[i].pre
      post == log[i].post
  IN IF log[i].rms > silenceThreshold
       THEN /\ post.active /\ post.count = 0
            /\ post.nsent = pre.nsent + Len(pre.buffer) + 1
            /\ sent[post.nsent] = i
            /\ post.buffer = <<>>
     ELSE IF pre.active
       THEN /\ post.count = pre.count + 1
            /\ IF pre.count < maxSilenceFrames
                 THEN post.active /\ SentDuring(i, i) = <<i>>
                 ELSE ~post.active /\ SentDuring(i, i) = <<>>
     ELSE /\ ~post.active
          /\ post.nsent = pre.nsent
          /\ post.buffer # <<>>
          /\ post.buffer[Len(post.buffer)] = i

\* C6  Mute gate: a frame captured while the mute flag is set, whatever its
\* energy, leaves the VAD state, the silence counter, the pre-roll buffer
\* and the transport untouched and is never forwarded later; the first
\* frame captured after unmuting goes through the VAD: a speech frame is
\* forwarded and makes the VAD SpeechActive, a silent frame is buffered
\* (when Silent) or forwarded (within the hangover).
C6_MuteGate ==
  \A i \in 1..Len(log) :
    /\ log[i].muted => MutedFrameIsNoOp(i)
    /\ (i >= 2 /\ log[i - 1].muted /\ ~log[i].muted) => ProcessedByVad(i)

C6_Witness ==
  \E i \in 2..Len(log) :
    /\ log[i - 1].muted /\ log[i - 1].rms > silenceThreshold
    /\ log[i - 1].pre.buffer # <<>>
    /\ MutedFrameIsNoOp(i - 1)
    /\ ~log[i].muted /\ log[i].rms > silenceThreshold
    /\ ProcessedByVad(i)
    /\ i \in Range(sent)

\* The number of interruptions handled when the latest buffer was scheduled
LastEpoch ==
  IF scheduled = <<>> THEN 0 ELSE scheduled[Len(scheduled)].epoch

\* C7  Interruption clears state: the handling of an interrupted event
\* stops every handle of the source set (the one scheduled by the same
\* message included) and leaves the set empty, the schedule clock at 0, no
\* turn in progress, the VAD Silent with silence counter 0 and the pre-roll
\* buffer empty; the first buffer scheduled after it starts at the current
\* output clock plus the lead.
C7_InterruptionClears ==
  [][ /\ (interruptions' > interruptions)
         => /\ sources \subseteq stopped'
            /\ \A h \in (Len(scheduled) + 1)..Len(scheduled') : h \in stopped'
            /\ sources' = {}
            /\ nextStartTime' = 0
            /\ currentTurnId' = 0
            /\ ~isSpeechActive'
            /\ silenceFrameCount' = 0
            /\ preRollBuffer' = <<>>
      /\ (Len(scheduled') > Len(scheduled) /\ interruptions > LastEpoch)
         => scheduled'[Len(scheduled')].start = currentTime + Lead
    ]_vars

C7_Witness ==
  \E i \in 2..Len(scheduled) :
    /\ scheduled[i].epoch > scheduled[i - 1].epoch
    /\ scheduled[i].start = scheduled[i].now + Lead
    /\ scheduled[i].start < scheduled[i - 1].start + scheduled[i - 1].dur
    /\ (i - 1) \in stopped
    /\ i \in sources
    /\ Len(log) = 1
    /\ log[1].post.active
    /\ log[1].epoch = 0
    /\ ~isSpeechActive

\* Buffers i and i+1: no interruption between them, and the second is
\* scheduled before the first's scheduled end
ScheduledEnd(i) == scheduled[i].start + scheduled[i].dur

Consecutive(i) ==
  /\ scheduled[i + 1].epoch = scheduled[i].epoch
  /\ scheduled[i + 1].now < ScheduledEnd(i)

\* C8  Playback gaplessness: of two buffers scheduled one after the other
\* with no interruption in between, the second being scheduled before the
\* scheduled end of the first, the second starts no earlier than the first
\* ends and at most the lead after it.
C8_Gapless ==
  \A i \in 1..(Len(scheduled) - 1) :
    Consecutive(i)
    => /\ scheduled[i + 1].start >= ScheduledEnd(i)
       /\ scheduled[i + 1].start - ScheduledEnd(i) <= Lead

C8_Witness ==
  /\ Len(scheduled) = 3
  /\ Consecutive(1) /\ Consecutive(2)
  /\ scheduled[2].now > scheduled[1].now
  /\ scheduled[2].start = ScheduledEnd(1)
  /\ scheduled[3].start = ScheduledEnd(2)

\* The three causes: permission, hardware, transport
ConnectFailures == MicErrors \cup {"transport"}

\* C9  connect() failure outcome: when microphone access is denied, no
\* input device exists or the remote session cannot be established, the
\* promise connect() returned is rejected.
C9_ConnectRejects ==
  (connectPc = "done" /\ fault \in ConnectFailures)
  => connectOutcome = "rejected"

\* Nothing acquired is held
TornDown ==
  /\ inputAudioContext = "null"
  /\ outputAudioContext = "null"
  /\ stream = "null"
  /\ inputProcessor = "null"
  /\ volumeInterval = "null"

\* C10  Failed connect leaves nothing acquired: once connect() has ended in
\* an error, no audio context is open, no microphone stream is live, no
\* processor node is attached and no telemetry timer is set.
C10_FailedConnectTornDown ==
  (connectPc = "done" /\ fault # "none") => TornDown

----------------------------------------------------------------------------
\* Reading the disconnect() calls

\* The fields of the service
ServiceFields ==
  <<inputAudioContext, outputAudioContext, outputGainNode, stream,
    inputProcessor, volumeInterval, sessionPromise, isMuted, silenceThreshold,
    maxPreRollFrames, preRollBuffer, isSpeechActive, silenceFrameCount,
    nextStartTime, sources, currentTurnId, currentRole, currentTranscript>>

\* The service holds nothing: it was never connected, or a disconnect()
\* has completed and nothing was acquired since
Released ==
  /\ TornDown
  /\ outputGainNode = "null"
  /\ sessionPromise = "null"
  /\ sources = {}
  /\ preRollBuffer = <<>>

\* No disconnect() call is waiting for a close()
NoneInProgress ==
  \A k \in 1..Len(disconnectPc) : disconnectPc[k].pc \in {"done", "rejected"}

\* This step is a call of disconnect()
Called == Len(disconnectPc') > Len(disconnectPc)

\* The k-th disconnect() call completes in this step
Completes(k) ==
  /\ k \in 1..Len(disconnectPc')
  /\ disconnectPc'[k].pc = "done"
  /\ k > Len(disconnectPc) \/ disconnectPc[k].pc # "done"

\* C11  disconnect() is idempotent and always succeeds: a call made while
\* no other call is in progress never ends in an error; a call made while
\* no connect() is in progress leaves, when it completes, a service that
\* holds nothing; and a call on a service that holds nothing (never
\* connected, or already disconnected) completes at once and leaves every
\* field of the service as it was.
C11_DisconnectIdempotent ==
  [][ /\ Called
         => /\ NoneInProgress
               => disconnectPc'[Len(disconnectPc')].pc # "rejected"
            /\ Released
               => /\ disconnectPc'[Len(disconnectPc')].pc = "done"
                  /\ ServiceFields' = ServiceFields
      /\ \A k \in 1..Len(disconnectPc') :
           (Completes(k) /\ disconnectPc'[k].at \in {"idle", "done"})
           => Released'
    ]_vars

C11_Witness ==
  /\ Len(disconnectPc) = 2
  /\ disconnectPc[1] = [pc |-> "done", at |-> "done", session |-> "open"]
  /\ disconnectPc[2].pc = "done"
  /\ hostDisconnects >= 2
  /\ stopped # {}
  /\ transport = "open"
  /\ Released

\* A disconnect() called on a connected service (its transport session
\* open) has completed
DisconnectedAfterConnect ==
  \E k \in 1..Len(disconnectPc) :
    disconnectPc[k].pc = "done" /\ disconnectPc[k].session = "open"

\* C12  disconnect() releases the network resource: when a disconnect()
\* called on a connected service (its transport session open) completes,
\* the session is no longer open, and once such a call has completed no
\* inbound message is handled.
C12_DisconnectClosesTransport ==
  [][ /\ \A k \in 1..Len(disconnectPc') :
           (Completes(k) /\ disconnectPc'[k].session = "open")
           => transport' # "open"
      /\ DisconnectedAfterConnect => received' = received
    ]_vars

\* connect() has returned, every disconnect() call has settled, and one of
\* them was called after connect() had begun
AllSettled ==
  /\ connectPc = "done"
  /\ NoneInProgress
  /\ \E k \in 1..Len(disconnectPc) : disconnectPc[k].at # "idle"

\* C13  disconnect() is safe at any point: once connect() and every
\* disconnect() call, however interleaved, have settled, no disconnect()
\* call has ended in an error, no microphone track is live, no audio context
\* is open, no processor node is attached and no telemetry timer is running.
C13_DisconnectSafeAnywhere ==
  AllSettled
  => /\ \A k \in 1..Len(disconnectPc) : disconnectPc[k].pc = "done"
     /\ stream = "null"
     /\ inputAudioContext # "open"
     /\ outputAudioContext # "open"
     /\ inputProcessor = "null"
     /\ volumeInterval = "null"

\* The transport session is dead: it reported an error or closed
Dead == transport \in {"failed", "closed"}

\* C14  Transport failure tears the session down: when the open session
\* reports an error or closes, the host is told (onError or onDisconnect),
\* and from then on no playback handle is in progress and no captured frame
\* is forwarded to the transport.
C14_TransportFailureTearsDown ==
  [][ /\ (transport = "open" /\ Dead')
         => (hostErrors' # hostErrors \/ hostDisconnects' > hostDisconnects)
      /\ (Dead /\ connectPc = "done")
         => (sent' = sent /\ sources \subseteq stopped)
    ]_vars

\* C15  Decode-failure tolerance: when a chunk cannot be decoded, the
\* schedule clock, the source set and the schedule are left as they were
\* and the failure is passed to the host's error callback; a chunk that is
\* decoded, after failures or not, is scheduled.
C15_DecodeFailureTolerated ==
  [][ /\ (dropped' > dropped)
         => /\ nextStartTime' = nextStartTime
            /\ sources' = sources
            /\ scheduled' = scheduled
            /\ Len(hostErrors') > Len(hostErrors)
      /\ (Len(decoding') < Len(decoding) /\ dropped' = dropped)
         => Len(scheduled') = Len(scheduled) + 1
    ]_vars

\* gain is volume brought into [0, 1] (in hundredths)
ClampedTo(volume, gain) ==
  /\ gain \in 0..100
  /\ volume \in 0..100 => gain = volume
  /\ volume < 0 => gain = 0
  /\ volume > 100 => gain = 100

\* C16  setOutputVolume(v) sets the output gain to v clamped into [0, 1]
\* and leaves the schedule clock, the source set, the schedule and the
\* output clock as they were; the start time of a buffer depends on the
\* output clock and the schedule clock only, whatever the gain.
C16_OutputVolume ==
  [][ /\ (outputGain' # outputGain)
         => /\ ClampedTo(outputGain'.volume, outputGain'.value)
            /\ UNCHANGED <<nextStartTime, sources, scheduled, stopped,
                           currentTime>>
      /\ (Len(scheduled') > Len(scheduled))
         => scheduled'[Len(scheduled')].start
              = IF nextStartTime < currentTime THEN currentTime + Lead
                                               ELSE nextStartTime
    ]_vars

C16_Witness ==
  /\ Len(scheduled) = 3
  /\ scheduled[1].gain = 100
  /\ scheduled[2].gain = 0
  /\ scheduled[3].gain = 100
  /\ scheduled[2].start = scheduled[1].start + scheduled[1].dur
  /\ scheduled[3].start = scheduled[2].start + scheduled[2].dur
  /\ scheduled[3].now > scheduled[1].now
  /\ outputGain = [volume |-> 150, value |-> 100]

----------------------------------------------------------------------------
\* Reading a downsampleBuffer call

\* x is an integer nearest to num / den
Nearest(x, num, den) ==
  LET diff == x * den - num
  IN 2 * (IF diff < 0 THEN 0 - diff ELSE diff) <= den

\* buffer[a] + ... + buffer[b]
RECURSIVE SumOf(_, _, _)
SumOf(buffer, a, b) ==
  IF a > b THEN 0 ELSE buffer[a] + SumOf(buffer, a + 1, b)

\* The number of input samples that the first k elements of frame average
RECURSIVE Consumed(_, _)
Consumed(frame, k) ==
  IF k = 0 THEN 0 ELSE frame[k].count + Consumed(frame, k - 1)

\* Element k of frame is the average of the bucket that starts at the
\* rounded (k-1)-th multiple of the ratio and ends at the rounded k-th
\* multiple, or at the end of the buffer
AveragesBucket(call, k) ==
  LET frame == call.result.frame
      first == Consumed(frame, k - 1)
      last == Consumed(frame, k)
  IN /\ frame[k].count > 0
     /\ Nearest(first, (k - 1) * call.inputRate, call.outputRate)
     /\ \/ Nearest(last, k * call.inputRate, call.outputRate)
        \/ k = Len(frame) /\ last = Len(call.buffer)
     /\ frame[k].accum = SumOf(call.buffer, first + 1, last)

----------------------------------------------------------------------------
\* The chunks delivered to the transport and those that will be when the
\* session promise resolves, in delivery order
Delivery == sent \o pendingSends

\* C18  Capture-order delivery: the chunks delivered to the transport are
\* frames that were captured unmuted, each at most once, in capture order,
\* the flushed pre-roll frames and the chunks whose send waited for the
\* session promise included.
C18_CaptureOrder ==
  /\ \A i \in 1..Len(Delivery) :
       Delivery[i] \in 1..Len(log) /\ ~log[Delivery[i]].muted
  /\ \A i \in 1..Len(Delivery) : \A j \in 1..Len(Delivery) :
       i < j => Delivery[i] < Delivery[j]

C18_Witness ==
  /\ Len(log) >= 5
  /\ SilentFrame(1) /\ SilentFrame(2) /\ SpeechFrame(3) /\ SpeechFrame(5)
  /\ log[4].muted
  /\ log[3].post.nsent = 0
  /\ log[5].pre.nsent = 3
  /\ sent = <<1, 2, 3, 5>>

\* C19  The frame that ends the hangover is buffered: after a speech frame,
\* the silent frame that makes the silence counter exceed the hangover
\* limit, like every silent frame after it, is pushed into the pre-roll
\* buffer by its own callback.
C19_ExpiringFrameBuffered ==
  \A s \in 2..Len(log) : \A e \in s..Len(log) :
    SpeechThenSilence(s, e)
    => \A j \in (s + maxSilenceFrames)..e :
         log[j].post.buffer = AddToPreRoll(log[j].pre.buffer, j)

\* C20  Teardown clears VAD state: when a disconnect() call completes, the
\* VAD is Silent, its silence counter is 0 and the pre-roll buffer is
\* empty, whatever they were before the call.
C20_TeardownClearsVad ==
  [][ \A k \in 1..Len(disconnectPc') :
        Completes(k)
        => /\ ~isSpeechActive'
           /\ silenceFrameCount' = 0
           /\ preRollBuffer' = <<>>
    ]_vars

\* The step is a call of the frame callback / the handling of an
\* interrupted event / a step of the message handler (a message arrives or
\* a decode ends) / a step of a disconnect() call / the end of a source
FrameStep == Len(log') = Len(log) + 1
InterruptionStep == interruptions' = interruptions + 1
HandlerStep == received' = received + 1 \/ Len(decoding') < Len(decoding)
DisconnectStepTaken == disconnectPc' # disconnectPc
EndedStep ==
  \E h \in sources :
    /\ sources' = sources \ {h}
    /\ scheduled[h].start + scheduled[h].dur <= currentTime

\* C21 as stated  Single-writer ownership: the speech flag, the silence
\* counter and the pre-roll buffer change only in a step of the frame
\* callback, and the set of playing sources changes in no step of the frame
\* callback, of setMuted, of setOutputVolume or of the output clock.
C21_SingleWriter ==
  [][ /\ vadVars' # vadVars => Len(log') = Len(log) + 1
      /\ (\/ Len(log') # Len(log)
          \/ isMuted' # isMuted
          \/ outputGain' # outputGain
          \/ currentTime' # currentTime)
         => sources' = sources
    ]_vars

\* C22  Outbound rate: every chunk the transport received is tagged with
\* the target rate when the device's native rate is above the target, and
\* with the native rate otherwise.
C22_OutboundRate ==
  \A i \in 1..Len(sent) :
    log[sent[i]].rate
      = IF sampleRate > TargetRate THEN TargetRate ELSE sampleRate

\* C23  Pre-roll capacity follows the real frame duration: with the app's
\* config, the capacity is preRollMs divided by the duration of one frame
\* of BufferSize samples at the native rate, rounded up, so capacity
\* frames last at least preRollMs.
C23_CapacityFollowsFrameDuration ==
  /\ maxPreRollFrames
       = Ceil(AppConfig.preRollMs * sampleRate, BufferSize(sampleRate) * 1000)
  /\ maxPreRollFrames * BufferSize(sampleRate) * 1000
       >= AppConfig.preRollMs * sampleRate

\* C21  Ownership of the shared structures: the speech flag and the
\* silence counter change only in a step of the frame callback or in the
\* handling of an interrupted event, which resets them; the pre-roll buffer
\* changes only there or in a step of disconnect(), which empties it; the
\* set of playing sources changes only in a step of the message handler,
\* when a source ends or in a step of disconnect().  setMuted,
\* setOutputVolume and the output clock change none of them, and the frame
\* callback never changes the set of sources.
C21_Owners ==
  [][ /\ <<isSpeechActive, silenceFrameCount>>'
           # <<isSpeechActive, silenceFrameCount>>
         => \/ FrameStep
            \/ InterruptionStep /\ ~isSpeechActive' /\ silenceFrameCount' = 0
      /\ preRollBuffer' # preRollBuffer
         => \/ FrameStep
            \/ (InterruptionStep \/ DisconnectStepTaken)
               /\ preRollBuffer' = <<>>
      /\ sources' # sources
         => /\ ~FrameStep
            /\ HandlerStep \/ EndedStep \/ DisconnectStepTaken
      /\ (isMuted' # isMuted \/ outputGain' # outputGain
          \/ currentTime' # currentTime)
         => /\ vadVars' = vadVars
            /\ sources' = sources
    ]_vars

\* An interrupted event and disconnect() have each written what the frame
\* callback left, after the host set the mute and the volume
C21_Witness ==
  /\ Len(log) = 2
  /\ log[1].post.active /\ log[1].epoch = 0
  /\ log[2].pre.active = FALSE /\ log[2].pre.nsent = log[1].post.nsent
  /\ log[2].epoch = 1
  /\ log[2].post.buffer = <<2>>
  /\ preRollBuffer = <<>>
  /\ Len(disconnectPc) = 1 /\ disconnectPc[1].pc = "done"
  /\ outputGain.volume = 0
  /\ isMuted

\* C24 as stated  Scheduling formula: every buffer starts at
\* max(now, prevEnd) + lead, now being the output clock and prevEnd the
\* end of the schedule when it was scheduled.
C24_StartIsMaxPlusLead ==
  \A i \in 1..Len(scheduled) :
    scheduled[i].start
      = (IF scheduled[i].now > scheduled[i].prev
           THEN scheduled[i].now ELSE scheduled[i].prev) + Lead

\* C24  Scheduling formula: a buffer scheduled when the end of the
\* schedule is in the past starts at now + lead; any other starts exactly
\* at the end of the schedule, with no lead; and the schedule then ends at
\* the buffer's end.
C24_ScheduleStart ==
  /\ \A i \in 1..Len(scheduled) :
       scheduled[i].start
         = IF scheduled[i].prev < scheduled[i].now
             THEN scheduled[i].now + Lead ELSE scheduled[i].prev
  /\ \A i \in 1..(Len(scheduled) - 1) :
       scheduled[i + 1].epoch = scheduled[i].epoch
       => scheduled[i + 1].prev = scheduled[i].start + scheduled[i].dur

\* A buffer scheduled on an idle output, one scheduled after the schedule
\* ran out, and one appended to a schedule that is still ahead of the clock
C24_Witness ==
  /\ Len(scheduled) = 3
  /\ scheduled[3].epoch = 0
  /\ scheduled[1].prev = 0 /\ scheduled[1].now > 0
  /\ scheduled[2].prev > 0
  /\ scheduled[2].prev < scheduled[2].now
  /\ scheduled[2].start = scheduled[2].now + Lead
  /\ scheduled[3].prev > scheduled[3].now
  /\ scheduled[3].start = scheduled[3].prev

\* The frames pushed into the pre-roll buffer since it was last emptied:
\* the silent frames processed while the VAD was Silent, after the last
\* speech frame and the last interrupted event; none once a disconnect()
\* has completed
BufferedSinceEmptied ==
  IF \E k \in 1..Len(disconnectPc) : disconnectPc[k].pc = "done" THEN {}
  ELSE {i \in 1..Len(log) :
          /\ SilentFrame(i)
          /\ ~log[i].pre.active
          /\ log[i].epoch = interruptions
          /\ \A j \in (i + 1)..Len(log) : ~SpeechFrame(j)}

\* C25  Pre-roll bound invariant: in every reachable state the pre-roll
\* buffer holds at most maxPreRollFrames frames, in capture order, and they
\* are the most recent of the frames pushed since it was last emptied: a
\* pushed frame is missing only from a full buffer, and is older than all
\* it holds.
C25_PreRollBound ==
  /\ Len(preRollBuffer) <= maxPreRollFrames
  /\ \A i \in 1..Len(preRollBuffer) : \A j \in 1..Len(preRollBuffer) :
       i < j => preRollBuffer[i] < preRollBuffer[j]
  /\ Range(preRollBuffer) \subseteq BufferedSinceEmptied
  /\ \A f \in BufferedSinceEmptied \ Range(preRollBuffer) :
       /\ Len(preRollBuffer) = maxPreRollFrames
       /\ f < preRollBuffer[1]

\* After an interruption and a muted frame the buffer overflowed, and a
\* disconnect() is under way
C25_Witness ==
  /\ interruptions = 1
  /\ \E i \in 1..Len(log) : log[i].muted
  /\ Len(preRollBuffer) = maxPreRollFrames
  /\ \E f \in BufferedSinceEmptied : f < preRollBuffer[1]
  /\ Len(disconnectPc) = 1 /\ disconnectPc[1].pc = "closeInput"

\* C26  Finalized turns are immutable: once an update with isFinal = TRUE
\* has been given to the host for a turn id, no later update carries that
\* id.
C26_FinalizedImmutable ==
  \A i \in 1..Len(updates) : \A j \in 1..Len(updates) :
    (i < j /\ updates[i].isFinal) => updates[j].id # updates[i].id

\* C27  Every started turn is finalized: when a turnComplete signal has
\* just been handled, every turn id carried by a non-final update is
\* carried by a later final update.
C27_StartedTurnsFinalized ==
  [][ turnCompletes' > turnCompletes
      => \A i \in 1..Len(updates') :
           ~updates'[i].isFinal
           => \E j \in (i + 1)..Len(updates') :
                updates'[j].id = updates'[i].id /\ updates'[j].isFinal
    ]_vars

\* C28  Interruption versus in-flight decode: every source of the set was
\* scheduled for a chunk that arrived after the last interrupted event
\* handled, whatever the order in which the decodes complete.
C28_NoStaleSourceAfterInterruption ==
  \A h \in sources : scheduled[h].arrived = interruptions

\* The frame callbacks attached to the capture graph
Callbacks == (IF inputProcessor = "attached" THEN 1 ELSE 0) + orphans

\* C29  One frame callback per session: while the input context runs, at
\* most one frame callback is attached to the capture graph, whatever the
\* order of connect(), the transport's open event, startInterviewMode()
\* and disconnect().
C29_OneFrameCallback == inputAudioContext = "open" => Callbacks <= 1

\* C30  VAD structural invariant: whenever the VAD is SpeechActive the
\* pre-roll buffer is empty and the silence counter is at most the
\* hangover limit, and the silence counter never exceeds the hangover
\* limit + 1.
C30_VadStructure ==
  /\ isSpeechActive
       => preRollBuffer = <<>> /\ silenceFrameCount <= maxSilenceFrames
  /\ silenceFrameCount >= 0
  /\ silenceFrameCount <= maxSilenceFrames + 1

\* After an interruption, a pre-roll was flushed by a speech frame, the
\* hangover ran out with the counter one above the limit, and a later
\* silent frame was buffered with the counter still there
C30_Witness ==
  /\ interruptions = 1
  /\ \E s \in 2..Len(log) :
       /\ log[s].epoch = 1
       /\ SpeechFrame(s)
       /\ log[s].pre.buffer # <<>>
       /\ log[s].post.active /\ log[s].post.buffer = <<>>
  /\ ~isSpeechActive
  /\ silenceFrameCount = maxSilenceFrames + 1
  /\ preRollBuffer # <<>>

====
